---- MODULE Spec2Model ----
(***************************************************************************)
(* A model of the web2md converter (src/WebToMarkdownConverter.ts).        *)
(*                                                                         *)
(* Text is modelled as a sequence of one-character strings, so that the    *)
(* regular-expression passes of tidyMarkdown are computed character by     *)
(* character.                                                              *)
(***************************************************************************)
EXTENDS Integers, Sequences, FiniteSets, TLC

VARIABLES
    pc,         \* which public operation has run: "init", "tidied", ...
    md,         \* tidyMarkdown: the text the caller holds
    calls,      \* tidyMarkdown: how many times it has been applied to md
    options,    \* the WebToMarkdownOptions given to the constructor
    rules,      \* turndownService.rules.array, highest priority first
    keeps,      \* turndownService.rules._keep, highest priority first
    htmlElementGlobal,  \* what the runtime's global HTMLElement is
    node,       \* the element the rule engine was last asked to render
    rule,       \* the name of the rule that element was dispatched to
    rendered,   \* what the replacement put into the output
    page,       \* what the html argument (or response.data) holds
    address,    \* the url argument, "undefined" when there is none
    fetch,      \* the outcome of axios.get(url)
    result      \* what htmlToMarkdown / urlToMarkdown returned or threw

tidyVars == <<md, calls>>
converterVars == <<options, rules, keeps, htmlElementGlobal>>
turndownVars == <<node, rule, rendered>>
pageVars == <<page, address, fetch>>
vars == <<pc, tidyVars, converterVars, turndownVars, pageVars, result>>

Null == "null"

\* No element rendered yet.
NoNode == [tag |-> "none", blank |-> FALSE, src |-> "none", heading |-> FALSE]

(***************************************************************************)
(* Strings                                                                 *)
(***************************************************************************)

\* Longest input text of tidyMarkdown that is enumerated.
MaxTidyLen == 6

\* The characters of the enumerated texts: a word character, the two kinds
\* of whitespace the passes tell apart, and the four link delimiters.
TidyChars == {"a", " ", "\n", "[", "]", "(", ")"}

\* \s of the regular expressions, and what String.prototype.trim removes.
IsSpace(c) == c \in {" ", "\n"}

\* [ \t] of the leading-indentation pass.
IsBlank(c) == c = " "

RECURSIVE TrimStart(_)
TrimStart(s) ==
    IF s # <<>> /\ IsSpace(Head(s)) THEN TrimStart(Tail(s)) ELSE s

RECURSIVE TrimEnd(_)
TrimEnd(s) ==
    IF s # <<>> /\ IsSpace(s[Len(s)]) THEN TrimEnd(SubSeq(s, 1, Len(s) - 1)) ELSE s

\* String.prototype.trim
Trim(s) == TrimEnd(TrimStart(s))

\* Index of the first c in s at or after position from; 0 when there is none.
RECURSIVE IndexFrom(_, _, _)
IndexFrom(s, c, from) ==
    IF from > Len(s) THEN 0
    ELSE IF s[from] = c THEN from
    ELSE IndexFrom(s, c, from + 1)

\* Index of the first non-whitespace character at or after from; Len(s)+1 if none.
RECURSIVE SkipSpace(_, _)
SkipSpace(s, from) ==
    IF from > Len(s) \/ ~IsSpace(s[from]) THEN from ELSE SkipSpace(s, from + 1)

\* x.replace(/\s+/g, ' ')
RECURSIVE CollapseSpace(_)
CollapseSpace(s) ==
    IF s = <<>> THEN <<>>
    ELSE IF IsSpace(Head(s))
         THEN <<" ">> \o CollapseSpace(SubSeq(s, SkipSpace(s, 1), Len(s)))
         ELSE <<Head(s)>> \o CollapseSpace(Tail(s))

\* x.replace(/\s+/g, '')
RemoveSpace(s) == SelectSeq(s, LAMBDA c : ~IsSpace(c))

(***************************************************************************)
(* tidyMarkdown                                                            *)
(***************************************************************************)

\* Capture group 1 of the link pattern for the bracket content x (the text
\* between "[" and the first "]" after it): \s* is greedy, the group
\* [^\]\n]+? is lazy and must be followed by \s*\]. <<>> stands for "the
\* bracket part does not match".
LinkText(x) ==
    LET core == Trim(x) IN
    IF core # <<>>
    THEN IF \E k \in 1..Len(core) : core[k] = "\n" THEN <<>> ELSE core
    ELSE IF \E k \in 1..Len(x) : x[k] = " " THEN <<" ">> ELSE <<>>

\* The match of /\[\s*([^\]\n]+?)\s*\]\s*\(\s*([^)]+)\s*\)/ that starts at
\* position i of s: [ok, text, url, last] with the two capture groups' roles
\* (url holds what lies between the parentheses) and the index of the
\* closing parenthesis.
LinkMatch(s, i) ==
    LET no == [ok |-> FALSE, text |-> <<>>, url |-> <<>>, last |-> i]
        j  == IndexFrom(s, "]", i + 1)
    IN  IF s[i] # "[" \/ j = 0 THEN no
        ELSE LET text == LinkText(SubSeq(s, i + 1, j - 1))
                 p    == SkipSpace(s, j + 1)
             IN  IF text = <<>> \/ p > Len(s) \/ s[p] # "(" THEN no
                 ELSE LET q == IndexFrom(s, ")", p + 1) IN
                      IF q = 0 \/ q = p + 1 THEN no
                      ELSE [ok |-> TRUE, text |-> text,
                            url |-> SubSeq(s, p + 1, q - 1), last |-> q]

\* The replacement callback of the link pass.
LinkReplacement(text, url) ==
    <<"[">> \o Trim(CollapseSpace(text)) \o <<"]", "(">> \o Trim(RemoveSpace(url)) \o <<")">>

\* The global replace of the link pass, scanning from position i.
RECURSIVE RepairLinks(_, _)
RepairLinks(s, i) ==
    IF i > Len(s) THEN <<>>
    ELSE LET m == LinkMatch(s, i) IN
         IF m.ok THEN LinkReplacement(m.text, m.url) \o RepairLinks(s, m.last + 1)
         ELSE <<s[i]>> \o RepairLinks(s, i + 1)

\* Length of the run of "\n" that starts at position i.
RECURSIVE NewlineRun(_, _)
NewlineRun(s, i) ==
    IF i > Len(s) \/ s[i] # "\n" THEN 0 ELSE 1 + NewlineRun(s, i + 1)

\* x.replace(/\n{3,}/g, '\n\n')
RECURSIVE CollapseNewlines(_, _)
CollapseNewlines(s, i) ==
    IF i > Len(s) THEN <<>>
    ELSE LET n == NewlineRun(s, i) IN
         IF n >= 3 THEN <<"\n", "\n">> \o CollapseNewlines(s, i + n)
         ELSE <<s[i]>> \o CollapseNewlines(s, i + 1)

\* x.replace(/^[ \t]+/gm, ''): atStart says position i begins a line.
RECURSIVE StripLeading(_, _, _)
StripLeading(s, i, atStart) ==
    IF i > Len(s) THEN <<>>
    ELSE IF atStart /\ IsBlank(s[i]) THEN StripLeading(s, i + 1, TRUE)
    ELSE <<s[i]>> \o StripLeading(s, i + 1, s[i] = "\n")

tidyMarkdown(markdown) ==
    LET repaired  == RepairLinks(markdown, 1)
        collapsed == CollapseNewlines(repaired, 1)
        stripped  == StripLeading(collapsed, 1, TRUE)
    IN  Trim(stripped)

\* All texts over TidyChars of length at most n.
TextsUpTo(n) == UNION {[1..k -> TidyChars] : k \in 0..n}

(***************************************************************************)
(* Conversion options and the rule table built at construction             *)
(***************************************************************************)

\* Most custom rules a caller supplies in the enumerated options.
MaxCustomRules == 1

\* The tags of the elements handed to the rule engine. "input" stands for a
\* checkbox input whose parent is a list item.
RuleTags == {"script", "svg", "title", "img", "p", "del", "input", "td", "table", "div"}

\* JavaScript truthiness of an option value ("undefined" is an unset option).
Truthy(v) == v \notin {"undefined", "false"}

\* The values the noGfm option takes: unset, false, true, 'table'.
NoGfmValues == {"undefined", "false", "true", "table"}

RetainImagesValues == {"undefined", "none", "alt", "alt_p", "all"}

\* A custom rule or a customKeep filter is given by the set of tags it matches.
TagFilters == {{t} : t \in RuleTags}

SeqsUpTo(S, n) == UNION {[1..k -> S] : k \in 0..n}

OptionValues ==
    [retainImages : RetainImagesValues,
     noGfm : NoGfmValues,
     imgDataUrlToObjectUrl : BOOLEAN,
     customRules : SeqsUpTo(TagFilters, MaxCustomRules),
     customKeep : SeqsUpTo({{"div"}, {"img"}}, 1)]

\* What the global name HTMLElement denotes where the filter of the data-URL
\* rule runs: nothing (the reference throws), a class of another DOM
\* implementation than the one of the rendered nodes, or the nodes' own.
HtmlElementGlobals == {"undefined", "foreign", "native"}

TagRule(name, tags) == [name |-> name, tags |-> tags]

\* The rules of the rendering engine's default rule set that match RuleTags.
CommonmarkRules == <<TagRule("paragraph", {"p"}), TagRule("image", {"img"})>>

\* new TurndownService(...)
NewTurndownService == [array |-> CommonmarkRules, keep |-> <<>>]

\* TurndownService.addRule: the rule is put in front of the table.
AddRule(svc, r) == [svc EXCEPT !.array = <<r>> \o @]

\* TurndownService.keep
Keep(svc, f) == [svc EXCEPT !.keep = <<f>> \o @]

\* The plugins of turndown-plugin-gfm.
UseHighlightedCodeBlock(svc) == AddRule(svc, TagRule("highlightedCodeBlock", {}))
UseStrikethrough(svc) == AddRule(svc, TagRule("strikethrough", {"del"}))
UseTaskListItems(svc) == AddRule(svc, TagRule("taskListItems", {"input"}))
UseTables(svc) ==
    AddRule(AddRule(AddRule(AddRule(Keep(svc, TagRule("tableWithoutHeading", {"table"})),
        TagRule("tableCell", {"td"})),
        TagRule("tableRow", {})),
        TagRule("table", {"table"})),
        TagRule("tableSection", {}))
UseGfm(svc) ==
    UseTaskListItems(UseTables(UseStrikethrough(UseHighlightedCodeBlock(svc))))

RECURSIVE AddCustomRules(_, _)
AddCustomRules(svc, cs) ==
    IF cs = <<>> THEN svc
    ELSE AddCustomRules(AddRule(svc, TagRule("custom", Head(cs))), Tail(cs))

\* Lines 85-93: the GFM plugins registered for the option value.
UseGfmPlugins(svc, noGfm) ==
    IF ~Truthy(noGfm)
    THEN IF noGfm = "table"
         THEN UseTaskListItems(UseStrikethrough(svc))
         ELSE UseGfm(svc)
    ELSE svc

configureTurndownService(o) ==
    LET s0 == NewTurndownService
        s1 == IF o.customKeep # <<>> THEN Keep(s0, TagRule("customKeep", o.customKeep[1])) ELSE s0
        s2 == AddRule(s1, TagRule("remove-irrelevant",
                    {"meta", "style", "script", "noscript", "link", "textarea", "select"}))
        s3 == AddRule(s2, TagRule("truncate-svg", {"svg"}))
        s4 == AddRule(s3, TagRule("title-as-h1", {"title"}))
        s5 == IF o.imgDataUrlToObjectUrl
              THEN AddRule(s4, TagRule("data-url-to-pseudo-object-url", {"img"}))
              ELSE s4
        s6 == AddCustomRules(s5, o.customRules)
        s7 == AddRule(s6, TagRule("improved-paragraph", {"p"}))
    IN  UseGfmPlugins(s7, o.noGfm)

(***************************************************************************)
(* Dispatch of an element to a rule                                        *)
(***************************************************************************)

\* The elements handed to the rule engine: a tag, whether the element is
\* blank (only whitespace inside), the kind of an image's src, and whether
\* a table's first row is a heading row.
RenderNodes ==
    {[tag |-> t, blank |-> b, src |-> "none", heading |-> FALSE] :
        t \in {"svg", "title", "p", "del", "div"}, b \in BOOLEAN}
    \cup {[tag |-> t, blank |-> FALSE, src |-> "none", heading |-> FALSE] :
        t \in {"script", "input", "td"}}
    \cup {[tag |-> "img", blank |-> FALSE, src |-> u, heading |-> FALSE] :
        u \in {"none", "data", "ordinary"}}
    \cup {[tag |-> "table", blank |-> FALSE, src |-> "none", heading |-> h] :
        h \in BOOLEAN}

\* The filter of rule r evaluated on element el.
Matches(r, el, env) ==
    CASE r.name = "data-url-to-pseudo-object-url" ->
            env = "native" /\ el.tag = "img" /\ el.src = "data"
      [] r.name = "table" -> el.tag = "table" /\ el.heading
      [] r.name = "tableWithoutHeading" -> el.tag = "table" /\ ~el.heading
      [] OTHER -> el.tag \in r.tags

\* Evaluating the filter raises a ReferenceError (line 52).
FilterThrows(r, el, env) ==
    r.name = "data-url-to-pseudo-object-url" /\ env = "undefined"

\* findRule: the name of the first rule of the list whose filter matches,
\* Null when there is none, "throw" when a filter evaluated on the way throws.
RECURSIVE findRule(_, _, _)
findRule(list, el, env) ==
    IF list = <<>> THEN Null
    ELSE IF FilterThrows(Head(list), el, env) THEN "throw"
    ELSE IF Matches(Head(list), el, env) THEN Head(list).name
    ELSE findRule(Tail(list), el, env)

\* Rules.forNode of the rendering engine.
forNode(svc, el, env) ==
    IF el.blank THEN "blank"
    ELSE LET r == findRule(svc.array, el, env) IN
         IF r # Null THEN r
         ELSE IF findRule(svc.keep, el, env) # Null THEN "keep"
         ELSE "default"

\* What the replacement of the rule named r puts into the output for el.
Replacement(r, el) ==
    CASE r \in {"remove-irrelevant", "truncate-svg", "blank", "throw"} -> {}
      [] r = "title-as-h1" -> {"text", "underline"}
      [] r = "data-url-to-pseudo-object-url" -> {"imageMarkup", "altText"}
      [] r = "custom" -> {"custom"}
      [] r = "image" -> IF el.src = "none" THEN {} ELSE {"imageMarkup", "altText"}
      [] r = "keep" -> IF el.tag = "img" THEN {"html", "imageMarkup", "altText"} ELSE {"html", "text"}
      [] r = "strikethrough" -> {"text", "tildes"}
      [] r = "taskListItems" -> {"checkbox"}
      [] r \in {"tableCell", "table"} -> {"text", "pipes"}
      [] OTHER -> {"text"}

(***************************************************************************)
(* The parsed document                                                     *)
(*                                                                         *)
(* Elements are numbered 1..n in document order: 1 is the html element, 2  *)
(* the body. parent[e] is the parent element, 0 for the child of the       *)
(* Document node and Detached for an element that has been removed.        *)
(***************************************************************************)

\* Most elements below the body in the enumerated documents.
MaxElements == 3

Detached == 0 - 1

Sel(type, value) == [type |-> type, value |-> value]

\* extractMainContent, lines 115-127
selectors ==
    <<Sel("tag", "article"), Sel("role", "main"), Sel("tag", "main"),
      Sel("id", "main-content"), Sel("class", "main-content"),
      Sel("id", "content"), Sel("class", "content"),
      Sel("id", "main"), Sel("class", "main"),
      Sel("class", "post-content"), Sel("class", "article-content")>>

\* cleanupDocument, lines 153-165
contentSelectors ==
    <<Sel("tag", "article"), Sel("role", "main"), Sel("tag", "main"),
      Sel("id", "main-content"), Sel("class", "main-content"),
      Sel("id", "content"), Sel("class", "content"),
      Sel("id", "main"), Sel("class", "main"),
      Sel("class", "post-content"), Sel("class", "article-content")>>

\* cleanupDocument, lines 182-203
selectorsToRemove ==
    <<Sel("tag", "nav"), Sel("tag", "header"), Sel("tag", "footer"),
      Sel("id", "header"), Sel("id", "footer"),
      Sel("class", "header"), Sel("class", "footer"),
      Sel("class", "navigation"), Sel("class", "nav"), Sel("class", "sidebar"),
      Sel("class", "menu"), Sel("class", "comments"),
      Sel("class", "advertisement"), Sel("class", "ads"),
      Sel("class", "social-share"), Sel("class", "related-posts"),
      Sel("role", "navigation"), Sel("role", "complementary"),
      Sel("role", "banner"), Sel("role", "contentinfo")>>

\* extractMainContent, line 134
wikiRemoveSelectors ==
    <<Sel("class", "navbox"), Sel("class", "vertical-navbox"), Sel("class", "sidebar"),
      Sel("class", "mw-editsection"), Sel("class", "mw-empty-elt")>>

Element(tag, id, role, class) == [tag |-> tag, id |-> id, role |-> role, class |-> class]

\* The elements the enumerated documents are built from.
ElementKinds ==
    {Element("div", "", "", {}),
     Element("article", "", "", {}),
     Element("div", "", "", {"content"}),
     Element("nav", "", "", {}),
     Element("nav", "", "", {"content"}),
     Element("div", "", "", {"sidebar"}),
     Element("div", "mw-content-text", "", {})}

BodyKinds == {Element("body", "", "", {}), Element("body", "", "", {"nav"})}

HtmlKind == Element("html", "", "", {})

\* Element.matches for a simple selector.
SelMatches(sel, el) ==
    CASE sel.type = "tag" -> el.tag = sel.value
      [] sel.type = "id" -> el.id = sel.value
      [] sel.type = "role" -> el.role = sel.value
      [] sel.type = "class" -> sel.value \in el.class

MatchesAny(sels, el) == \E i \in 1..Len(sels) : SelMatches(sels[i], el)

\* Node.contains: c is el or an ancestor of el.
RECURSIVE Contains(_, _, _)
Contains(parent, c, el) ==
    c = el \/ (parent[el] > 0 /\ Contains(parent, c, parent[el]))

\* The element is connected to the Document.
RECURSIVE Attached(_, _)
Attached(parent, el) ==
    IF parent[el] = 0 THEN TRUE
    ELSE IF parent[el] = Detached THEN FALSE
    ELSE Attached(parent, parent[el])

\* The elements of S in document order.
RECURSIVE InOrder(_)
InOrder(S) ==
    IF S = {} THEN <<>>
    ELSE LET m == CHOOSE x \in S : \A y \in S : x <= y IN <<m>> \o InOrder(S \ {m})

\* document.querySelectorAll(sel): a static list in document order.
querySelectorAll(parent, kind, sel) ==
    SelectSeq([e \in 1..Len(parent) |-> e],
              LAMBDA e : SelMatches(sel, kind[e]) /\ Attached(parent, e))

\* document.querySelector(sel): the first match in document order, 0 for null.
querySelector(parent, kind, sel) ==
    LET all == querySelectorAll(parent, kind, sel) IN
    IF all = <<>> THEN 0 ELSE Head(all)

\* document.body, 0 for null.
DocumentBody(parent, kind) ==
    IF 2 \in DOMAIN parent /\ parent[2] = 1 /\ Attached(parent, 1) THEN 2 ELSE 0

\* The well-formed parent maps over n elements whose numbering is the
\* document order: the body is the child of html, and each further element
\* hangs under the previous element or one of that element's ancestors, the
\* body at the highest.
RECURSIVE Trees(_)
Trees(n) ==
    IF n = 2 THEN {<<0, 1>>}
    ELSE UNION {{Append(p, q) : q \in {a \in 2..(n - 1) : Contains(p, a, n - 1)}} :
                    p \in Trees(n - 1)}

(***************************************************************************)
(* cleanupDocument                                                         *)
(***************************************************************************)

\* Lines 168-179: the elements matching a content selector and all their
\* ancestors.
contentElements(parent, kind) ==
    LET matched == {e \in DOMAIN parent :
                        Attached(parent, e) /\ MatchesAny(contentSelectors, kind[e])}
    IN  {a \in DOMAIN parent : \E e \in matched : Contains(parent, a, e)}

\* RemoveEach as it would be with only the membership test of line 208.
RECURSIVE RemoveEachMembershipOnly(_, _, _)
RemoveEachMembershipOnly(parent, list, content) ==
    IF list = <<>> THEN parent
    ELSE RemoveEachMembershipOnly(
            IF Head(list) \in content THEN parent ELSE [parent EXCEPT ![Head(list)] = Detached],
            Tail(list), content)

\* Lines 207-211: the forEach over one static list of matches.
RECURSIVE RemoveEach(_, _, _)
RemoveEach(parent, list, content) ==
    IF list = <<>> THEN parent
    ELSE LET el   == Head(list)
             keep == el \in content \/ \E c \in content : Contains(parent, c, el)
         IN  RemoveEach(IF keep THEN parent ELSE [parent EXCEPT ![el] = Detached],
                        Tail(list), content)

\* Lines 206-212: the forEach over the removal selectors.
RECURSIVE RemoveSelectors(_, _, _, _)
RemoveSelectors(parent, kind, sels, content) ==
    IF sels = <<>> THEN parent
    ELSE RemoveSelectors(
            RemoveEach(parent, querySelectorAll(parent, kind, Head(sels)), content),
            kind, Tail(sels), content)

\* The parent map after cleanupDocument.
cleanupDocument(parent, kind) ==
    RemoveSelectors(parent, kind, selectorsToRemove, contentElements(parent, kind))

(***************************************************************************)
(* extractMainContent                                                      *)
(***************************************************************************)

\* The URLs a document is parsed with; "undefined" is a call without url.
Urls == {"undefined", "https://example.com/post", "https://en.wikipedia.org/wiki/Page"}

\* document.location?.hostname?.includes('wikipedia.org')
IsWikipedia(url) == url = "https://en.wikipedia.org/wiki/Page"

\* TrySelectors as it would be with one query for the whole list: the first
\* element in document order that any selector matches.
TrySelectorsTogether(parent, kind, sels) ==
    LET all == SelectSeq([e \in 1..Len(parent) |-> e],
                         LAMBDA e : MatchesAny(sels, kind[e]) /\ Attached(parent, e))
    IN  IF all = <<>> THEN 0 ELSE Head(all)

\* Lines 140-145: the first element matched by the first selector that
\* matches; 0 when none matches.
RECURSIVE TrySelectors(_, _, _)
TrySelectors(parent, kind, sels) ==
    IF sels = <<>> THEN 0
    ELSE LET element == querySelector(parent, kind, Head(sels)) IN
         IF element # 0 THEN element ELSE TrySelectors(parent, kind, Tail(sels))

\* Line 134: every descendant of content that matches the list is removed.
WikiStrip(parent, kind, content) ==
    [e \in DOMAIN parent |->
        IF e # content /\ Contains(parent, content, e) /\ Attached(parent, e)
            /\ MatchesAny(wikiRemoveSelectors, kind[e])
        THEN Detached ELSE parent[e]]

\* [element, parent]: the element returned (0 for null) and the parent map
\* the call leaves behind.
extractMainContent(parent, kind, url) ==
    LET content == querySelector(parent, kind, Sel("id", "mw-content-text")) IN
    IF IsWikipedia(url) /\ content # 0
    THEN [element |-> content, parent |-> WikiStrip(parent, kind, content)]
    ELSE LET found == TrySelectors(parent, kind, selectors) IN
         [element |-> IF found # 0 THEN found ELSE DocumentBody(parent, kind),
          parent |-> parent]

(***************************************************************************)
(* extractPublishedTime                                                    *)
(*                                                                         *)
(* The elements that carry dates are kept apart from the content tree: a   *)
(* sequence, in document order, of records of the attributes the selectors *)
(* and the value lookup read. Null is an attribute the element lacks.      *)
(***************************************************************************)

\* Most date-carrying elements in the enumerated documents.
MaxTimeEls == 2

NaN == 0 - 1

TimeSel(tag, attr, value) == [tag |-> tag, attr |-> attr, value |-> value]

\* Lines 233-246; tag "" is any tag, value "*" is "the attribute is present".
timeSelectors ==
    <<TimeSel("meta", "property", "article:published_time"),
      TimeSel("meta", "property", "og:published_time"),
      TimeSel("meta", "name", "published_time"),
      TimeSel("meta", "name", "date"),
      TimeSel("meta", "name", "article:published_time"),
      TimeSel("meta", "itemprop", "datePublished"),
      TimeSel("time", "datetime", "*"),
      TimeSel("time", "pubdate", "*"),
      TimeSel("", "itemprop", "datePublished"),
      TimeSel("", "class", "published-date"),
      TimeSel("", "class", "post-date"),
      TimeSel("", "class", "article-date")>>

TimeEl(tag, attr, value, content, datetime, pubdate, text) ==
    [[tag |-> tag, id |-> Null, property |-> Null, name |-> Null, itemprop |-> Null,
      class |-> Null, content |-> content, datetime |-> datetime,
      pubdate |-> pubdate, text |-> text] EXCEPT ![attr] = value]

Iso1 == "2024-01-02T00:00:00Z"
Iso2 == "2024-01-02T01:00:00+01:00"
Written == "3 March 2024"
NoMonth == "40 Foo 2024"
Garbage == "soon"
Sentence == "edited on 3 March 2024, at 10:00"

\* The date-carrying elements the enumerated documents are built from.
TimeElements ==
    {TimeEl("meta", "property", "article:published_time", c, Null, Null, "") :
        c \in {"", Garbage, Iso1, Iso2}}
    \cup {TimeEl("meta", "name", "date", c, Null, Null, "") : c \in {Garbage, Iso1}}
    \cup {TimeEl("meta", "itemprop", "datePublished", c, Null, Null, "") : c \in {Garbage, Iso2}}
    \cup {TimeEl("time", "id", Null, Null, d, Null, Written) : d \in {"", Garbage, Iso1}}
    \cup {TimeEl("time", "id", Null, Null, Null, "", t) : t \in {Garbage, Written}}
    \cup {TimeEl("time", "id", Null, Null, Null, Written, Garbage)}
    \cup {TimeEl("span", "itemprop", "datePublished", Null, Null, Null, t) :
        t \in {"", NoMonth, Written}}
    \cup {TimeEl("span", "class", "post-date", Null, Null, Null, t) : t \in {Garbage, Written}}
    \cup {TimeEl("li", "id", "footer-info-lastmod", Null, Null, Null, t) :
        t \in {Garbage, Sentence, NoMonth}}

TimeSelMatches(sel, el) ==
    /\ sel.tag = "" \/ el.tag = sel.tag
    /\ IF sel.value = "*" THEN el[sel.attr] # Null ELSE el[sel.attr] = sel.value

\* document.querySelector over the date-carrying elements: an index, 0 for null.
RECURSIVE FirstTimeEl(_, _, _)
FirstTimeEl(els, sel, i) ==
    IF i > Len(els) THEN 0
    ELSE IF TimeSelMatches(sel, els[i]) THEN i
    ELSE FirstTimeEl(els, sel, i + 1)

\* A string is truthy unless it is null or empty.
TruthyStr(v) == v \notin {Null, ""}

\* Date.parse, in a process whose time zone is UTC: the time value, in
\* days' notation, or NaN.
DateParse(v) ==
    CASE v \in {Iso1, Iso2} -> 20240102
      [] v = Written -> 20240303
      [] OTHER -> NaN

\* Date.prototype.toISOString
toISOString(t) ==
    CASE t = 20240102 -> "2024-01-02T00:00:00.000Z"
      [] t = 20240303 -> "2024-03-03T00:00:00.000Z"

\* text.match(/\d{1,2}\s+\w+\s+\d{4}/)?.[0]
DatePattern(text) ==
    CASE text \in {Sentence, Written} -> Written
      [] text = NoMonth -> NoMonth
      [] OTHER -> Null

\* Lines 252-255
TimeValue(el) ==
    IF TruthyStr(el.content) THEN el.content
    ELSE IF TruthyStr(el.datetime) THEN el.datetime
    ELSE IF TruthyStr(el.pubdate) THEN el.pubdate
    ELSE el.text

\* GenericPublishedTime as it would be if the loop ended at the first
\* selector that matches an element.
RECURSIVE GenericPublishedTimeFirstMatchOnly(_, _)
GenericPublishedTimeFirstMatchOnly(els, sels) ==
    IF sels = <<>> THEN Null
    ELSE LET i == FirstTimeEl(els, Head(sels), 1) IN
         IF i = 0 THEN GenericPublishedTimeFirstMatchOnly(els, Tail(sels))
         ELSE IF TruthyStr(TimeValue(els[i])) /\ DateParse(TimeValue(els[i])) # NaN
         THEN toISOString(DateParse(TimeValue(els[i])))
         ELSE Null

\* Lines 248-270: the loop over the selectors, Null for undefined.
RECURSIVE GenericPublishedTime(_, _)
GenericPublishedTime(els, sels) ==
    IF sels = <<>> THEN Null
    ELSE LET i == FirstTimeEl(els, Head(sels), 1) IN
         IF i # 0 /\ TruthyStr(TimeValue(els[i])) /\ DateParse(TimeValue(els[i])) # NaN
         THEN toISOString(DateParse(TimeValue(els[i])))
         ELSE GenericPublishedTime(els, Tail(sels))

\* Lines 217-230: the revision date of a Wikipedia page, Null when the path
\* yields nothing.
WikiPublishedTime(els, url) ==
    LET i == FirstTimeEl(els, TimeSel("", "id", "footer-info-lastmod"), 1)
        revisionTimestamp == IF i = 0 THEN Null ELSE DatePattern(els[i].text)
    IN  IF IsWikipedia(url) /\ TruthyStr(revisionTimestamp)
            /\ DateParse(revisionTimestamp) # NaN
        THEN toISOString(DateParse(revisionTimestamp))
        ELSE Null

extractPublishedTime(els, url) ==
    IF WikiPublishedTime(els, url) # Null THEN WikiPublishedTime(els, url)
    ELSE GenericPublishedTime(els, timeSelectors)

(***************************************************************************)
(* htmlToMarkdown                                                          *)
(*                                                                         *)
(* Output text is a sequence of atoms: "\n" is a line break, any other     *)
(* atom a piece of text without line breaks.                               *)
(***************************************************************************)

\* The title element's text: absent or empty, one line, or a line wrapped in
\* line breaks as pretty-printed markup has it.
Titles == {<<>>, <<"My Page">>, <<"\n", "My Page", "\n">>}

\* Array.prototype.join
RECURSIVE Join(_, _)
Join(parts, sep) ==
    IF parts = <<>> THEN <<>>
    ELSE IF Len(parts) = 1 THEN parts[1]
    ELSE parts[1] \o sep \o Join(Tail(parts), sep)

\* FormatHeader as it would be without filter(Boolean).
FormatHeaderUnfiltered(title, url, publishedTime) ==
    Join(<< <<"Title: ">> \o title,
            IF Truthy(url) THEN <<"\n", "URL Source: ", url>> ELSE <<>>,
            IF publishedTime # Null
               THEN <<"\n", "Published Time: ", publishedTime>> ELSE <<>>,
            <<"\n", "Markdown Content:">> >>, <<"\n">>)

\* Lines 303-308
FormatHeader(title, url, publishedTime) ==
    LET fields == << <<"Title: ">> \o title,
                     IF Truthy(url) THEN <<"\n", "URL Source: ", url>> ELSE <<>>,
                     IF publishedTime # Null
                        THEN <<"\n", "Published Time: ", publishedTime>> ELSE <<>>,
                     <<"\n", "Markdown Content:">> >>
    IN  Join(SelectSeq(fields, LAMBDA f : f # <<>>), <<"\n">>)

\* The element as the rule engine sees it.
ToRenderNode(el, blank) ==
    [tag |-> el.tag, blank |-> blank, src |-> "none", heading |-> FALSE]

\* The rule each element below main is dispatched to.
RuleOf(doc, parent, svc, env, e) ==
    forNode(svc,
            ToRenderNode(doc.kind[e],
                         ~\E t \in doc.texts : Attached(parent, t) /\ Contains(parent, e, t)),
            env)

\* RenderedTexts as it would be if the whole document were rendered.
RenderedTextsOfDocument(doc, parent, main, svc, env) ==
    {t \in doc.texts : Attached(parent, t)}

\* The elements whose own text reaches the output of
\* turndown(mainContent.innerHTML): those in main none of whose enclosing
\* elements below main is dispatched to a rule that drops its content.
RenderedTexts(doc, parent, main, svc, env) ==
    {t \in doc.texts :
        /\ Attached(parent, t) /\ Contains(parent, main, t)
        /\ \A a \in DOMAIN parent :
            (a # main /\ Contains(parent, main, a) /\ Contains(parent, a, t))
            => "text" \in Replacement(RuleOf(doc, parent, svc, env, a), ToRenderNode(doc.kind[a], FALSE))}

\* A filter throws while the subtree of main is rendered.
RenderThrows(doc, parent, main, svc, env) ==
    \E a \in DOMAIN parent :
        /\ a # main /\ Attached(parent, a) /\ Contains(parent, main, a)
        /\ RuleOf(doc, parent, svc, env, a) = "throw"

\* The Markdown of the rendered texts: one paragraph each.
MarkdownOf(texts) ==
    Join([i \in 1..Cardinality(texts) |-> <<ToString(InOrder(texts)[i])>>], <<"\n", "\n">>)

NoResult ==
    [error |-> <<>>, publishedTime |-> Null, cleaned |-> <<>>, parent |-> <<>>,
     mainContent |-> 0, texts |-> {}, output |-> <<>>]

\* htmlToMarkdown(html, url) on a converter with rule table svc: the value
\* returned (output) or the error thrown, with the intermediate results.
htmlToMarkdown(doc, url, svc, env) ==
    IF doc.data # "string"
    THEN [NoResult EXCEPT !.error = <<"html.replace is not a function">>]
    ELSE
    LET title         == IF doc.title # <<>> THEN doc.title ELSE <<"Untitled">>
        publishedTime == extractPublishedTime(doc.timeEls, url)
        cleaned       == cleanupDocument(doc.parent, doc.kind)
        extracted     == extractMainContent(cleaned, doc.kind, url)
        main          == extracted.element
        sofar         == [NoResult EXCEPT !.publishedTime = publishedTime,
                                          !.cleaned = cleaned,
                                          !.parent = extracted.parent,
                                          !.mainContent = main]
    IN  IF main = 0
        THEN [sofar EXCEPT !.error = <<"Cannot read properties of null">>]
        ELSE IF RenderThrows(doc, extracted.parent, main, svc, env)
        THEN [sofar EXCEPT !.error = <<"HTMLElement is not defined">>]
        ELSE LET texts == RenderedTexts(doc, extracted.parent, main, svc, env) IN
             [sofar EXCEPT !.texts = texts,
                           !.output = FormatHeader(title, url, publishedTime)
                                        \o <<"\n">> \o MarkdownOf(texts)]

(***************************************************************************)
(* urlToMarkdown                                                           *)
(***************************************************************************)

\* The outcomes of axios.get: a response, or a rejection with an Error.
Fulfilled == [ok |-> TRUE, isError |-> FALSE, message |-> ""]
Rejected(message) == [ok |-> FALSE, isError |-> TRUE, message |-> message]
FetchOutcomes ==
    {Fulfilled, Rejected("Network Error"), Rejected("Request failed with status code 404")}

\* Lines 322-327: what the catch block throws for the error it caught.
Rethrow(isError, message) ==
    IF isError THEN <<"Failed to fetch URL: ">> \o message ELSE message

\* urlToMarkdown(url), given the outcome of the fetch and the page served.
urlToMarkdown(outcome, doc, u, svc, env) ==
    IF ~outcome.ok
    THEN [NoResult EXCEPT !.error = Rethrow(outcome.isError, <<outcome.message>>)]
    ELSE LET r == htmlToMarkdown(doc, u, svc, env) IN
         IF r.error # <<>> THEN [r EXCEPT !.error = Rethrow(TRUE, r.error)] ELSE r

(***************************************************************************)
(* Specifications                                                          *)
(***************************************************************************)

DefaultOptions ==
    [retainImages |-> "undefined", noGfm |-> "undefined",
     imgDataUrlToObjectUrl |-> FALSE, customRules |-> <<>>, customKeep |-> <<>>]

\* The constructor, called with options o.
Constructed(o) ==
    /\ options = o
    /\ rules = configureTurndownService(o).array
    /\ keeps = configureTurndownService(o).keep

\* A converter as the command line builds it, in a runtime without DOM globals.
DefaultConverter ==
    /\ Constructed(DefaultOptions)
    /\ htmlElementGlobal = "undefined"

\* The content tree with shape p, body b and the elements k below the body.
Dom(p, b, k) == [parent |-> p, kind |-> <<HtmlKind, b>> \o k]

\* The numbers of elements of the content trees with at most m elements
\* below the body.
Sizes(m) == 2..(2 + m)

\* A page: the type of the data, the title text, the date-carrying
\* elements, the content tree and the elements that hold text of their own.
Page(data, title, timeEls, dom, texts) ==
    [data |-> data, title |-> title, timeEls |-> timeEls,
     parent |-> dom.parent, kind |-> dom.kind, texts |-> texts]

\* A page whose body is the only element.
BodyOnly == [parent |-> <<0, 1>>, kind |-> <<HtmlKind, Element("body", "", "", {})>>]

NoPage == Page("string", <<>>, <<>>, BodyOnly, {})

TidyIdle == md = <<>> /\ calls = 0
TurndownIdle == node = NoNode /\ rule = Null /\ rendered = {}
PageIdle == page = NoPage /\ address = "undefined" /\ fetch = Fulfilled /\ result = NoResult

InitTidy ==
    /\ pc = "init"
    /\ DefaultConverter
    /\ md \in TextsUpTo(MaxTidyLen)
    /\ calls = 0
    /\ TurndownIdle
    /\ PageIdle

\* The caller replaces its text by tidyMarkdown's result.
TidyMarkdown ==
    /\ calls < 2
    /\ md' = tidyMarkdown(md)
    /\ calls' = calls + 1
    /\ pc' = "tidied"
    /\ UNCHANGED <<converterVars, turndownVars, pageVars, result>>

NextTidy == TidyMarkdown

SpecTidy == InitTidy /\ [][NextTidy]_vars

InitRules ==
    /\ pc = "init"
    /\ \E o \in OptionValues : Constructed(o)
    /\ htmlElementGlobal \in HtmlElementGlobals
    /\ TidyIdle
    /\ TurndownIdle
    /\ PageIdle

\* The rendering engine renders one element: it dispatches the element to a
\* rule and runs the rule's replacement.
Turndown ==
    /\ pc = "init"
    /\ \E el \in RenderNodes :
        LET r == forNode([array |-> rules, keep |-> keeps], el, htmlElementGlobal) IN
        /\ node' = el
        /\ rule' = r
        /\ rendered' = Replacement(r, el)
        /\ pc' = IF r = "throw" THEN "thrown" ELSE "rendered"
    /\ UNCHANGED <<tidyVars, converterVars, pageVars, result>>

NextRules == Turndown

SpecRules == InitRules /\ [][NextRules]_vars

\* htmlToMarkdown(html, url)
HtmlToMarkdown ==
    /\ pc = "init"
    /\ result' = htmlToMarkdown(page, address, [array |-> rules, keep |-> keeps], htmlElementGlobal)
    /\ pc' = IF result'.error # <<>> THEN "thrown" ELSE "returned"
    /\ UNCHANGED <<tidyVars, converterVars, turndownVars, pageVars>>

\* Documents that vary in their content tree, parsed with a url; every
\* element holds text.
InitDom ==
    /\ pc = "init"
    /\ DefaultConverter
    /\ \E n \in Sizes(MaxElements) :
        \E p \in Trees(n), b \in BodyKinds, k \in [1..(n - 2) -> ElementKinds] :
            page = Page("string", <<"My Page">>, <<>>, Dom(p, b, k), 1..n)
    /\ address \in Urls \ {"undefined"}
    /\ fetch = Fulfilled
    /\ result = NoResult
    /\ TidyIdle
    /\ TurndownIdle

NextDom == HtmlToMarkdown

SpecDom == InitDom /\ [][NextDom]_vars

\* The content trees of the documents that vary in their metadata: a body
\* without text, a body with text, a body with text and a paragraph.
MetaDoms ==
    {[dom |-> BodyOnly, texts |-> {}],
     [dom |-> BodyOnly, texts |-> {2}],
     [dom |-> [parent |-> <<0, 1, 2>>,
               kind |-> <<HtmlKind, Element("body", "", "", {}), Element("div", "", "", {})>>],
      texts |-> {2, 3}]}

\* Documents that vary in title, url and date-carrying elements.
InitMeta ==
    /\ pc = "init"
    /\ DefaultConverter
    /\ \E t \in Titles, els \in SeqsUpTo(TimeElements, MaxTimeEls), d \in MetaDoms :
            page = Page("string", t, els, d.dom, d.texts)
    /\ address \in Urls
    /\ fetch = Fulfilled
    /\ result = NoResult
    /\ TidyIdle
    /\ TurndownIdle

NextMeta == HtmlToMarkdown

SpecMeta == InitMeta /\ [][NextMeta]_vars

\* urlToMarkdown(url)
UrlToMarkdown ==
    /\ pc = "init"
    /\ result' = urlToMarkdown(fetch, page, address, [array |-> rules, keep |-> keeps],
                               htmlElementGlobal)
    /\ pc' = IF result'.error # <<>> THEN "thrown" ELSE "returned"
    /\ UNCHANGED <<tidyVars, converterVars, turndownVars, pageVars>>

\* Fetches that fail or succeed, serving HTML text or parsed JSON.  The pages
\* served have a plain body, so that cleanupDocument never removes the body and
\* every conversion error comes from the type of response.data.
InitFetch ==
    /\ pc = "init"
    /\ DefaultConverter
    /\ \E data \in {"string", "object"}, t \in Titles, n \in Sizes(1) :
        \E p \in Trees(n), b \in {Element("body", "", "", {})}, k \in [1..(n - 2) -> ElementKinds] :
            page = Page(data, t, <<>>, Dom(p, b, k), 1..n)
    /\ address \in Urls \ {"undefined"}
    /\ fetch \in FetchOutcomes
    /\ result = NoResult
    /\ TidyIdle
    /\ TurndownIdle

NextFetch == UrlToMarkdown

SpecFetch == InitFetch /\ [][NextFetch]_vars

(***************************************************************************)
(* Claims                                                                  *)
(***************************************************************************)

\* C1: tidyMarkdown is idempotent: applying it to a text it has already
\* tidied changes nothing.
TidyIdempotent == [][calls >= 1 => md' = md]_vars

RuleNames == {rules[i].name : i \in 1..Len(rules)}

\* The GFM extensions whose rules are in the table.
GfmEnabled ==
    {x \in {"tables", "taskListItems", "strikethrough"} :
        (IF x = "tables" THEN "table" ELSE x) \in RuleNames}

\* C2: the GFM extensions registered at construction follow noGfm: all three
\* when it is false or unset, none when it is true, strikethrough and task
\* lists without tables when it is 'table'.
GfmFollowsOption ==
    GfmEnabled = CASE options.noGfm = "true" -> {}
                   [] options.noGfm = "table" -> {"taskListItems", "strikethrough"}
                   [] OTHER -> {"tables", "taskListItems", "strikethrough"}

\* C3: with retainImages 'none', the rendering of an ordinary image holds
\* neither image markup nor the image's alt text.
NoImageWhenNone ==
    (pc = "rendered" /\ options.retainImages = "none"
        /\ node.tag = "img" /\ node.src = "ordinary")
    => rendered \cap {"imageMarkup", "altText"} = {}

CustomMatches(el) ==
    \E i \in 1..Len(options.customRules) : el.tag \in options.customRules[i]

BaselineNames ==
    {"remove-irrelevant", "truncate-svg", "title-as-h1", "data-url-to-pseudo-object-url",
     "improved-paragraph", "strikethrough", "taskListItems", "tableCell", "table"}

BaselineMatches(el) ==
    \E i \in 1..Len(rules) :
        /\ rules[i].name \in BaselineNames
        /\ Matches(rules[i], el, "native")

\* C4: an element matched by a custom rule and by a baseline rule is
\* dispatched to the custom rule.
CustomRuleWins ==
    (pc # "init" /\ CustomMatches(node) /\ BaselineMatches(node))
    => rule = "custom"

(***************************************************************************)
(* Claims about htmlToMarkdown                                             *)
(***************************************************************************)

\* The title the header shows.
ShownTitle == IF page.title # <<>> THEN page.title ELSE <<"Untitled">>

\* Position of the first occurrence of atom a in text s, 0 when absent.
AtomIndex(s, a) == IndexFrom(s, a, 1)

Has(s, a) == AtomIndex(s, a) # 0

\* The header fields come in the order Title, URL Source, Published Time,
\* Markdown Content, the optional ones present exactly when they have a value.
HeaderFieldsInOrder ==
    LET out == result.output
        t == AtomIndex(out, "Title: ")
        u == AtomIndex(out, "URL Source: ")
        p == AtomIndex(out, "Published Time: ")
        m == AtomIndex(out, "Markdown Content:")
    IN  /\ t = 1
        /\ SubSeq(out, 2, 1 + Len(ShownTitle)) = ShownTitle
        /\ m > t
        /\ (u # 0) <=> (address # "undefined")
        /\ u # 0 => (t < u /\ u < m /\ out[u + 1] = address /\ out[u - 1] = "\n")
        /\ (p # 0) <=> (result.publishedTime # Null)
        /\ p # 0 => (t < p /\ u < p /\ p < m /\ out[p + 1] = result.publishedTime
                        /\ out[p - 1] = "\n")
        /\ out[m - 1] = "\n"

\* What follows the marker line.
AfterMarker ==
    SubSeq(result.output, AtomIndex(result.output, "Markdown Content:") + 1,
           Len(result.output))

\* C5 as claimed: the fields are in order and a blank line separates the
\* marker line from the Markdown body.
HeaderThenBlankLineThenBody ==
    pc = "returned" =>
        /\ HeaderFieldsInOrder
        /\ result.texts # {} => AfterMarker = <<"\n", "\n">> \o MarkdownOf(result.texts)

\* C5, amended: the output is 'Title: <title>', then after a blank line
\* 'URL Source: <url>' iff a url was given, then after a blank line
\* 'Published Time: <time>' iff a time was found, then after a blank line
\* the line 'Markdown Content:', and the Markdown body begins on the very
\* next line, with no blank line in between.
HeaderThenBody ==
    pc = "returned" =>
        /\ HeaderFieldsInOrder
        /\ result.output =
              <<"Title: ">> \o ShownTitle
              \o (IF address # "undefined"
                    THEN <<"\n", "\n", "URL Source: ", address>> ELSE <<>>)
              \o (IF result.publishedTime # Null
                    THEN <<"\n", "\n", "Published Time: ", result.publishedTime>> ELSE <<>>)
              \o <<"\n", "\n", "Markdown Content:", "\n">>
              \o MarkdownOf(result.texts)

\* A conversion with a url, a published time and a non-empty body.
HeaderWitness ==
    /\ pc = "returned"
    /\ address # "undefined"
    /\ result.publishedTime # Null
    /\ result.texts # {}
    /\ Len(page.title) > 1

\* The element (an index into the page's date-carrying elements) the i-th
\* selector of the list matches first, 0 when it matches none.
FirstMatchOf(i) ==
    IF \E k \in 1..Len(page.timeEls) : TimeSelMatches(timeSelectors[i], page.timeEls[k])
    THEN CHOOSE k \in 1..Len(page.timeEls) :
            /\ TimeSelMatches(timeSelectors[i], page.timeEls[k])
            /\ \A j \in 1..(k - 1) : ~TimeSelMatches(timeSelectors[i], page.timeEls[j])
    ELSE 0

\* The value read from an element: content, else datetime, else pubdate,
\* else the text content, the first of them that is not empty.
ValueRead(el) ==
    LET attrs == <<el.content, el.datetime, el.pubdate>>
        given == {j \in 1..3 : attrs[j] # Null /\ attrs[j] # ""}
    IN  IF given = {} THEN el.text
        ELSE attrs[CHOOSE j \in given : \A k \in given : j <= k]

\* The i-th selector yields a date that parses.
Yields(i) ==
    /\ FirstMatchOf(i) # 0
    /\ ValueRead(page.timeEls[FirstMatchOf(i)]) # ""
    /\ DateParse(ValueRead(page.timeEls[FirstMatchOf(i)])) # NaN

\* The generic path decides the published time: the page is not a Wikipedia
\* page whose footer carries a date that parses.
GenericPath ==
    ~(IsWikipedia(address)
        /\ \E k \in 1..Len(page.timeEls) :
            /\ page.timeEls[k].id = "footer-info-lastmod"
            /\ \A j \in 1..(k - 1) : page.timeEls[j].id # "footer-info-lastmod"
            /\ DateParse(DatePattern(page.timeEls[k].text)) # NaN)

\* C8: in the generic path the published time is the ISO-8601 form of the
\* value (content, else datetime, else pubdate, else text) of the first
\* element matched by the first selector of the list that yields a date
\* that parses; values that do not parse never fail the conversion; and
\* when no selector yields one, the result is absent and the header has no
\* 'Published Time' line.
PublishedTimeFromFirstParseable ==
    (pc # "init" /\ GenericPath) =>
        /\ pc = "returned"
        /\ \A i \in 1..Len(timeSelectors) :
            (Yields(i) /\ \A j \in 1..(i - 1) : ~Yields(j))
            => result.publishedTime =
                    toISOString(DateParse(ValueRead(page.timeEls[FirstMatchOf(i)])))
        /\ (\A i \in 1..Len(timeSelectors) : ~Yields(i))
            => (result.publishedTime = Null /\ ~Has(result.output, "Published Time: "))
        /\ result.publishedTime # Null => Has(result.output, result.publishedTime)

\* A selector matches an element whose value does not parse, a later
\* selector yields the published time, read from an attribute although the
\* element has text too.
PublishedTimeWitness ==
    /\ pc = "returned"
    /\ GenericPath
    /\ \E i \in 1..Len(timeSelectors) :
        /\ Yields(i)
        /\ \E j \in 1..(i - 1) : FirstMatchOf(j) # 0 /\ ~Yields(j)
        /\ \A j \in 1..(i - 1) : ~Yields(j)
        /\ page.timeEls[FirstMatchOf(i)].text # ""
        /\ ValueRead(page.timeEls[FirstMatchOf(i)]) # page.timeEls[FirstMatchOf(i)].text
        /\ result.publishedTime = "2024-01-02T00:00:00.000Z"

(***************************************************************************)
(* Claims about the content tree                                           *)
(***************************************************************************)

Elements == DOMAIN page.parent

IsBoilerplate(e) == MatchesAny(selectorsToRemove, page.kind[e])

IsContent(e) == MatchesAny(contentSelectors, page.kind[e])

\* a is e or an ancestor of e in the page as parsed.
Encloses(a, e) == Contains(page.parent, a, e)

\* The element selected is a recognized content container: it matches a
\* content selector, or it is the content container of a Wikipedia page.
RecognizedContainer(e) ==
    /\ e # 0
    /\ \/ IsContent(e)
       \/ IsWikipedia(address) /\ page.kind[e].id = "mw-content-text"

\* The elements of the container whose text is content: not inside an
\* element below the container that is boilerplate, that the Wikipedia path
\* strips, or whose content the rules drop.
ContentTexts(c) ==
    {t \in page.texts :
        /\ Encloses(c, t)
        /\ \A a \in Elements :
            (a # c /\ Encloses(c, a) /\ Encloses(a, t))
            => /\ ~IsBoilerplate(a)
               /\ ~MatchesAny(wikiRemoveSelectors, page.kind[a])
               /\ page.kind[a].tag \notin
                    {"meta", "style", "script", "noscript", "link", "textarea", "select", "svg"}}

\* C6: when boilerplate elements lie outside the recognized content
\* container that is selected, the body holds the container's text and no
\* text of any element outside the container.
ContainerTextOnly ==
    (pc = "returned" /\ RecognizedContainer(result.mainContent)
        /\ \E b \in Elements : IsBoilerplate(b) /\ ~Encloses(result.mainContent, b))
    => /\ ContentTexts(result.mainContent) \subseteq result.texts
       /\ \A t \in result.texts : Encloses(result.mainContent, t)

\* An article with text between a nav before it and boilerplate after it.
ContainerWitness ==
    /\ pc = "returned"
    /\ RecognizedContainer(result.mainContent)
    /\ page.kind[result.mainContent].tag = "article"
    /\ \E b1, b2 \in Elements :
        /\ b1 < result.mainContent /\ result.mainContent < b2
        /\ page.kind[b1].tag = "nav"
        /\ IsBoilerplate(b2)
        /\ ~Encloses(result.mainContent, b2)
    /\ result.texts = ContentTexts(result.mainContent)
    /\ result.texts # {}

\* The elements of the document handed to extractMainContent that the i-th
\* selector matches.
Matched(i) ==
    {e \in Elements : Attached(result.cleaned, e) /\ SelMatches(selectors[i], page.kind[e])}

\* C9: off Wikipedia, extractMainContent returns the element that comes
\* first in document order among those matched by the earliest selector of
\* the list that matches anything, wherever elements matched by later
\* selectors sit; when no selector matches it returns document.body.
FirstMatchOfEarliestSelector ==
    (pc # "init" /\ ~IsWikipedia(address)) =>
        /\ \A i \in 1..Len(selectors) :
            (Matched(i) # {} /\ \A j \in 1..(i - 1) : Matched(j) = {})
            => /\ result.mainContent \in Matched(i)
               /\ \A e \in Matched(i) : result.mainContent <= e
        /\ (\A i \in 1..Len(selectors) : Matched(i) = {})
            => result.mainContent = DocumentBody(result.cleaned, page.kind)

\* The element returned comes after an element matched by a later selector.
EarliestSelectorWitness ==
    /\ pc = "returned"
    /\ ~IsWikipedia(address)
    /\ \E i \in 1..Len(selectors) :
        /\ result.mainContent \in Matched(i)
        /\ \E j \in (i + 1)..Len(selectors) :
            \E e \in Matched(j) : e < result.mainContent /\ e \notin Matched(i)

\* The protected set: the elements matching a content selector and their
\* ancestors.
Protected == {a \in Elements : \E m \in Elements : IsContent(m) /\ Encloses(a, m)}

\* C10: after cleanupDocument, an element matched by a boilerplate selector
\* is out of the tree iff it was neither protected nor inside a protected
\* element; one that matches a content selector too is never removed.
RemovedIffUnprotected ==
    pc # "init" =>
        \A e \in Elements :
            IsBoilerplate(e) =>
                /\ ~Attached(result.cleaned, e)
                    <=> (e \notin Protected /\ ~\E c \in Protected : Encloses(c, e))
                /\ IsContent(e) => Attached(result.cleaned, e)

\* Cleanup removed a boilerplate element with content below it, and with it
\* an element that is not boilerplate.
RemovedWitness ==
    /\ pc # "init"
    /\ \E e, d \in Elements :
        /\ IsBoilerplate(e) /\ ~Attached(result.cleaned, e)
        /\ d # e /\ Encloses(e, d) /\ ~IsBoilerplate(d)

\* C11: the element extractMainContent returns after cleanupDocument has run,
\* whether a selector found it or it is the body fallback, exists and is
\* attached to the document, also when it carries a boilerplate tag, id,
\* class or role itself.
MainContentSurvivesCleanup ==
    pc # "init" =>
        /\ result.mainContent \in Elements
        /\ Attached(result.cleaned, result.mainContent)

(***************************************************************************)
(* Claims about urlToMarkdown                                             *)
(***************************************************************************)

DescribesFetchFailure(error) == error # <<>> /\ Head(error) = "Failed to fetch URL: "

\* C7: a failed fetch makes urlToMarkdown fail with an error that describes
\* a fetch failure and holds the original message, and an error that
\* describes a fetch failure is raised only when the fetch failed.
FetchErrorIffFetchFailed ==
    pc # "init" =>
        /\ ~fetch.ok =>
            /\ pc = "thrown"
            /\ DescribesFetchFailure(result.error)
            /\ Has(result.error, fetch.message)
            /\ result.output = <<>>
        /\ DescribesFetchFailure(result.error) => ~fetch.ok


====
